---- MODULE Spec2Model ----
(***************************************************************************)
(* Model of goGeo (src/main.go): an HTTP gateway with three gorilla/mux    *)
(* routes, one logging middleware, a server goroutine running              *)
(* srv.ListenAndServe and a main goroutine that waits for a signal and     *)
(* then calls srv.Shutdown under a 30 second context.                      *)
(*                                                                         *)
(* Three kinds of flow of control are interleaved:                         *)
(*   main        the controller, lines 82-114                              *)
(*   goroutine   the anonymous func of lines 98-104                        *)
(*   connection  one net/http task per accepted connection, which reads a  *)
(*               request, runs the router (middleware + handler) and       *)
(*               finishes the response                                     *)
(* The steps of net/http, os/signal and gorilla/mux that main.go calls are *)
(* modelled at the call site by what the library does there.               *)
(*                                                                         *)
(* The process is modelled from the start of main to its return.  The      *)
(* operating system ending the process on a signal the program cannot      *)
(* observe (SIGKILL, or an interrupt before signal.Notify has run) runs no *)
(* code of the program and is no transition of this model.  Each           *)
(* connection carries one request.                                         *)
(***************************************************************************)
EXTENDS Naturals, Sequences, FiniteSets

\* ---------------------------------------------------------------- bounds
\* connections the clients open during one run
MaxConns == 2
\* interrupts the environment delivers during one run
MaxSignals == 2
\* seconds of the shutdown context that pass in one step of the clock
TickSeconds == 10

\* ------------------------------------------------------ program constants
\* context.WithTimeout(context.Background(), 30*time.Second)
ShutdownTimeout == 30

\* http.StatusOK, and the status of http.NotFoundHandler
StatusOK == 200
StatusNotFound == 404

VARIABLES
    mainPc,        \* position of main: "start","notify","recv","wait","gotsig","shutdown","polling","returned","exited"
    gPc,           \* position of the goroutine: "none","log","listen","bind","track","serving","ret","done"
    listener,      \* the socket of bindAddress: "unbound","open","closed"
    inShutdown,    \* srv.inShutdown, set by srv.Shutdown
    lsErr,         \* err of line 100: "nil","bind","closed" (http.ErrServerClosed)
    registered,    \* signal.Notify has registered sigChan
    sig,           \* counters of interrupts: [sent, received, lost]
    calls,         \* counters: [shutdown, shutdownRet, lnOpens, lnCloses]
    elapsed,       \* seconds since ctx was created (line 111)
    quietAtShutdown, \* no connection was open when srv.Shutdown was called
    fixture,       \* content of data/LA.json
    conns,         \* connection id -> [st, path, logs, resp]
    log            \* lines written by log.Println: message -> count

vars == <<mainPc, gPc, listener, inShutdown, lsErr, registered, sig, calls,
          elapsed, quietAtShutdown, fixture, conns, log>>

ConnIds == 1..MaxConns

\* ------------------------------------------------------------- JSON model
\* A JSON object of a provider result is a record over (flattened) keys:
\*   formatted_address, location_type (geometry.location_type),
\*   lat, lng (geometry.location.lat/lng), and any other key the provider
\*   sends (place_id).  Keys may be absent.
ResultExact == [formatted_address |-> "LA", location_type |-> "APPROXIMATE", lat |-> 34, lng |-> 118]
ResultOther == [formatted_address |-> "NY", location_type |-> "ROOFTOP", lat |-> 40, lng |-> 74]
ResultExtra == [formatted_address |-> "LA", location_type |-> "APPROXIMATE", lat |-> 34, lng |-> 118, place_id |-> "p1"]
ResultMissing == [location_type |-> "APPROXIMATE", lat |-> 34, lng |-> 118]

\* What ioutil.ReadFile("data/LA.json") can find on disk.
Fixtures ==
    { [kind |-> "unreadable"],
      [kind |-> "malformed"],
      [kind |-> "json", results |-> << >>],
      [kind |-> "json", results |-> <<ResultExact>>],
      [kind |-> "json", results |-> <<ResultExact, ResultOther>>],
      [kind |-> "json", results |-> <<ResultExtra>>],
      [kind |-> "json", results |-> <<ResultMissing>>] }

\* MockService: the bytes of the file, or nil (and a printed error) when it
\* cannot be read.
MockService(fx) ==
    IF fx.kind = "unreadable" THEN [kind |-> "nil"] ELSE fx

\* The zero value of type result.
ZeroResult == [Address |-> "", LocationType |-> "", Lat |-> 0, Lng |-> 0]

\* json.Unmarshal of one element of "results" into type result: the keys
\* with a json tag are copied, every other key is dropped, an absent key
\* leaves the zero value.
UnmarshalResult(obj) ==
    [Address      |-> IF "formatted_address" \in DOMAIN obj THEN obj.formatted_address ELSE ZeroResult.Address,
     LocationType |-> IF "location_type" \in DOMAIN obj THEN obj.location_type ELSE ZeroResult.LocationType,
     Lat          |-> IF "lat" \in DOMAIN obj THEN obj.lat ELSE ZeroResult.Lat,
     Lng          |-> IF "lng" \in DOMAIN obj THEN obj.lng ELSE ZeroResult.Lng]

\* json.Unmarshal(raw, &resp): nil bytes and a syntax error return an error
\* and leave resp at its zero value (Results = nil).
Unmarshal(raw) ==
    IF raw.kind = "json"
    THEN [err |-> FALSE,
          Results |-> [i \in 1..Len(raw.results) |-> UnmarshalResult(raw.results[i])]]
    ELSE [err |-> TRUE, Results |-> << >>]

\* json.Marshal of a value of type result: every field is written under
\* its json tag.
Marshal(r) ==
    [formatted_address |-> r.Address, location_type |-> r.LocationType,
     lat |-> r.Lat, lng |-> r.Lng]

\* ------------------------------------------------------------- responses
NoBody == [kind |-> "none"]
TextBody(t) == [kind |-> "text", text |-> t]
JsonBody(o) == [kind |-> "json", obj |-> o]
VarsBody(v) == [kind |-> "vars", vars |-> v]

\* What a handler leaves behind: the status and body written to w, whether
\* it panicked, and the lines it logged.
NoResp == [status |-> 0, body |-> NoBody, panic |-> FALSE, errlog |-> 0]

HomeHandler ==
    [status |-> StatusOK, body |-> TextBody("Server is up and running!\n"),
     panic |-> FALSE, errlog |-> 0]


\* GeocodeHandler with a test of len(resp.Results) before the index: an
\* error status instead of the panic
GeocodeHandler_checked(fx) ==
    LET raw  == MockService(fx)
        resp == Unmarshal(raw)
        nlog == IF resp.err THEN 1 ELSE 0
    IN  IF Len(resp.Results) = 0
        THEN [status |-> 502, body |-> NoBody, panic |-> FALSE, errlog |-> nlog]
        ELSE [status |-> StatusOK, body |-> JsonBody(Marshal(resp.Results[1])),
              panic |-> FALSE, errlog |-> nlog]

\* GeocodeHandler: the address variable is not read.  WriteHeader(200)
\* precedes resp.Results[0], which panics (index out of range) on an empty
\* slice; then nothing is written.
GeocodeHandler(fx) ==
    LET raw  == MockService(fx)
        resp == Unmarshal(raw)
        nlog == IF resp.err THEN 1 ELSE 0
    IN  IF Len(resp.Results) = 0
        THEN [status |-> StatusOK, body |-> NoBody, panic |-> TRUE, errlog |-> nlog]
        ELSE [status |-> StatusOK, body |-> JsonBody(Marshal(resp.Results[1])),
              panic |-> FALSE, errlog |-> nlog]

GeolocHandler(v) ==
    [status |-> StatusOK, body |-> VarsBody(v), panic |-> FALSE, errlog |-> 0]

\* http.NotFoundHandler, which mux serves when no route matches.
NotFoundHandler ==
    [status |-> StatusNotFound, body |-> TextBody("404 page not found\n"),
     panic |-> FALSE, errlog |-> 0]

\* --------------------------------------------------------------- routing
\* A request path is its sequence of segments; the "{lat},{lng}" segment is
\* written as its two parts.  /nope and /geocode (no address) match no
\* route.
Paths ==
    { << >>, <<"geocode", "a">>, <<"geocode", "b">>, <<"geoloc", "1", "2">>,
      <<"nope">>, <<"geocode">> }


\* Match with a catch-all route: a path that matches nothing else is served
\* by the handler of "/"
Match_catchAll(p) ==
    IF Len(p) = 2 /\ p[1] = "geocode" THEN "geocode"
    ELSE IF Len(p) = 3 /\ p[1] = "geoloc" THEN "geoloc"
    ELSE "home"

\* router.HandleFunc of lines 84-86: the route a path matches, "none" when
\* it matches no route.
Match(p) ==
    IF Len(p) = 0 THEN "home"
    ELSE IF Len(p) = 2 /\ p[1] = "geocode" THEN "geocode"
    ELSE IF Len(p) = 3 /\ p[1] = "geoloc" THEN "geoloc"
    ELSE "none"

\* mux.Vars(r) of a matched request.
Vars(p) ==
    IF Match(p) = "geocode" THEN [address |-> p[2]]
    ELSE IF Match(p) = "geoloc" THEN [lat |-> p[2], lng |-> p[3]]
    ELSE [none |-> TRUE]

\* RunHandler where the geocode route looks the address up (the call of
\* callExternalService that line 132 has commented out): another address,
\* another result
RunHandler_live(p, fx) ==
    IF Match(p) = "home" THEN HomeHandler
    ELSE IF Match(p) = "geocode"
         THEN IF p[2] = "a" THEN GeocodeHandler(fx)
              ELSE GeocodeHandler([kind |-> "json", results |-> <<ResultOther>>])
    ELSE GeolocHandler(Vars(p))

\* The handler registered for a route.
RunHandler(p, fx) ==
    IF Match(p) = "home" THEN HomeHandler
    ELSE IF Match(p) = "geocode" THEN GeocodeHandler(fx)
    ELSE GeolocHandler(Vars(p))

\* ---------------------------------------------------------------- state
NoConn == [st |-> "none", path |-> << >>, logs |-> 0, resp |-> NoResp]

\* connections that are accepted and not finished
Open(c) == conns[c].st \in {"new", "routed", "handler"}
Quiescent == \A c \in ConnIds : ~Open(c)

Alive == mainPc # "exited"

Init ==
    /\ mainPc = "start"
    /\ gPc = "none"
    /\ listener = "unbound"
    /\ inShutdown = FALSE
    /\ lsErr = "nil"
    /\ registered = FALSE
    /\ sig = [sent |-> 0, received |-> 0, lost |-> 0]
    /\ calls = [shutdown |-> 0, shutdownRet |-> 0, lnOpens |-> 0, lnCloses |-> 0]
    /\ elapsed = 0
    /\ quietAtShutdown = FALSE
    /\ fixture \in Fixtures
    /\ conns = [c \in ConnIds |-> NoConn]
    /\ log = [listening |-> 0, errListen |-> 0, terminate |-> 0, unmarshal |-> 0, panic |-> 0]

\* ----------------------------------------------------------------- main
\* lines 83-104: the router and srv are built and the goroutine is started
MainStart ==
    /\ mainPc = "start"
    /\ mainPc' = "notify"
    /\ gPc' = "log"
    /\ UNCHANGED <<listener, inShutdown, lsErr, registered, sig, calls, elapsed,
                   quietAtShutdown, fixture, conns, log>>

\* lines 106-108: sigChan is made (unbuffered) and registered
MainNotify ==
    /\ mainPc = "notify"
    /\ mainPc' = "recv"
    /\ registered' = TRUE
    /\ UNCHANGED <<gPc, listener, inShutdown, lsErr, sig, calls, elapsed,
                   quietAtShutdown, fixture, conns, log>>

\* line 109: main reaches the receive and blocks in it
MainReceive ==
    /\ mainPc = "recv"
    /\ mainPc' = "wait"
    /\ UNCHANGED <<gPc, listener, inShutdown, lsErr, registered, sig, calls, elapsed,
                   quietAtShutdown, fixture, conns, log>>


\* SignalDelivered when the interrupt ends the process at once (os.Exit in
\* place of the shutdown sequence)
SignalDelivered_exit ==
    /\ Alive /\ registered /\ sig.sent < MaxSignals
    /\ mainPc = "wait"
    /\ mainPc' = "exited"
    /\ sig' = [sig EXCEPT !.sent = @ + 1, !.received = @ + 1]
    /\ UNCHANGED <<gPc, listener, inShutdown, lsErr, registered, calls, elapsed,
                   quietAtShutdown, fixture, conns, log>>

\* An interrupt while main is blocked in the receive of line 109: the
\* non-blocking send of os/signal succeeds.
SignalDelivered ==
    /\ Alive /\ registered /\ sig.sent < MaxSignals
    /\ mainPc = "wait"
    /\ mainPc' = "gotsig"
    /\ sig' = [sig EXCEPT !.sent = @ + 1, !.received = @ + 1]
    /\ UNCHANGED <<gPc, listener, inShutdown, lsErr, registered, calls, elapsed,
                   quietAtShutdown, fixture, conns, log>>

\* An interrupt while main is not blocked in the receive (it has not
\* reached it yet, or has left it): sigChan has no buffer and os/signal
\* drops what it cannot send.
SignalDropped ==
    /\ Alive /\ registered /\ sig.sent < MaxSignals
    /\ mainPc # "wait"
    /\ sig' = [sig EXCEPT !.sent = @ + 1, !.lost = @ + 1]
    /\ UNCHANGED <<mainPc, gPc, listener, inShutdown, lsErr, registered, calls,
                   elapsed, quietAtShutdown, fixture, conns, log>>

\* lines 110-112: the line is logged and ctx is created with its deadline
MainGotSignal ==
    /\ mainPc = "gotsig"
    /\ mainPc' = "shutdown"
    /\ log' = [log EXCEPT !.terminate = @ + 1]
    /\ elapsed' = 0
    /\ UNCHANGED <<gPc, listener, inShutdown, lsErr, registered, sig, calls,
                   quietAtShutdown, fixture, conns>>

\* ShutdownBegin without closing the listeners
ShutdownBegin_keepListening ==
    /\ mainPc = "shutdown"
    /\ mainPc' = "polling"
    /\ inShutdown' = TRUE
    /\ quietAtShutdown' = Quiescent
    /\ calls' = [calls EXCEPT !.shutdown = @ + 1]
    /\ UNCHANGED <<gPc, listener, lsErr, registered, sig, elapsed, fixture, conns, log>>

\* line 113, the call: srv.Shutdown sets inShutdown and closes the
\* listeners srv tracks (the one of a Serve that is in its accept loop).
ShutdownBegin ==
    /\ mainPc = "shutdown"
    /\ mainPc' = "polling"
    /\ inShutdown' = TRUE
    /\ quietAtShutdown' = Quiescent
    /\ IF gPc = "serving" /\ listener = "open"
       THEN /\ listener' = "closed"
            /\ calls' = [calls EXCEPT !.shutdown = @ + 1, !.lnCloses = @ + 1]
       ELSE /\ listener' = listener
            /\ calls' = [calls EXCEPT !.shutdown = @ + 1]
    /\ UNCHANGED <<gPc, lsErr, registered, sig, elapsed, fixture, conns, log>>

\* ctx has expired
Expired == elapsed >= ShutdownTimeout

\* ShutdownReturn with a context that never expires
ShutdownReturn_noDeadline ==
    /\ mainPc = "polling"
    /\ Quiescent
    /\ mainPc' = "returned"
    /\ calls' = [calls EXCEPT !.shutdownRet = @ + 1]
    /\ UNCHANGED <<gPc, listener, inShutdown, lsErr, registered, sig, elapsed,
                   quietAtShutdown, fixture, conns, log>>

\* ShutdownReturn that does not wait for the open connections (srv.Close)
ShutdownReturn_noWait ==
    /\ mainPc = "polling"
    /\ mainPc' = "returned"
    /\ calls' = [calls EXCEPT !.shutdownRet = @ + 1]
    /\ UNCHANGED <<gPc, listener, inShutdown, lsErr, registered, sig, elapsed,
                   quietAtShutdown, fixture, conns, log>>

\* line 113, the return: srv.Shutdown polls until no connection is open or
\* ctx is done.
ShutdownReturn ==
    /\ mainPc = "polling"
    /\ Quiescent \/ Expired
    /\ mainPc' = "returned"
    /\ calls' = [calls EXCEPT !.shutdownRet = @ + 1]
    /\ UNCHANGED <<gPc, listener, inShutdown, lsErr, registered, sig, elapsed,
                   quietAtShutdown, fixture, conns, log>>

\* The clock of ctx.  srv.Shutdown polls every few milliseconds, so no
\* step of the clock passes while it is able to return.
Tick ==
    /\ mainPc = "polling"
    /\ ~Quiescent /\ ~Expired
    /\ elapsed' = elapsed + TickSeconds
    /\ UNCHANGED <<mainPc, gPc, listener, inShutdown, lsErr, registered, sig, calls,
                   quietAtShutdown, fixture, conns, log>>

\* MainReturn when srv.Shutdown runs in a goroutine of its own
MainReturn_noJoin ==
    /\ mainPc \in {"polling", "returned"}
    /\ mainPc' = "exited"
    /\ listener' = IF listener = "open" THEN "closed" ELSE listener
    /\ UNCHANGED <<gPc, inShutdown, lsErr, registered, sig, calls, elapsed,
                   quietAtShutdown, fixture, conns, log>>

\* MainReturn when the receive of line 109 sits in a loop
MainReturn_loop ==
    /\ mainPc = "returned"
    /\ mainPc' = "wait"
    /\ UNCHANGED <<gPc, listener, inShutdown, lsErr, registered, sig, calls, elapsed,
                   quietAtShutdown, fixture, conns, log>>

\* line 114: main returns (the deferred cancel runs) and the process ends;
\* every goroutine stops where it is and the system closes the socket.
MainReturn ==
    /\ mainPc = "returned"
    /\ mainPc' = "exited"
    /\ listener' = IF listener = "open" THEN "closed" ELSE listener
    /\ UNCHANGED <<gPc, inShutdown, lsErr, registered, sig, calls, elapsed,
                   quietAtShutdown, fixture, conns, log>>

\* ------------------------------------------------------------ goroutine
\* line 99
SrvLogListening ==
    /\ Alive /\ gPc = "log"
    /\ gPc' = "listen"
    /\ log' = [log EXCEPT !.listening = @ + 1]
    /\ UNCHANGED <<mainPc, listener, inShutdown, lsErr, registered, sig, calls,
                   elapsed, quietAtShutdown, fixture, conns>>

\* line 100, entry of srv.ListenAndServe: ErrServerClosed when srv is
\* already shutting down
SrvListenEntry ==
    /\ Alive /\ gPc = "listen"
    /\ IF inShutdown
       THEN gPc' = "ret" /\ lsErr' = "closed"
       ELSE gPc' = "bind" /\ lsErr' = lsErr
    /\ UNCHANGED <<mainPc, listener, inShutdown, registered, sig, calls, elapsed,
                   quietAtShutdown, fixture, conns, log>>

\* line 100, net.Listen on bindAddress: binds, or fails (address in use)
SrvBind ==
    /\ Alive /\ gPc = "bind"
    /\ \E ok \in BOOLEAN :
        IF ok
        THEN /\ gPc' = "track"
             /\ listener' = "open"
             /\ calls' = [calls EXCEPT !.lnOpens = @ + 1]
             /\ lsErr' = lsErr
        ELSE /\ gPc' = "ret"
             /\ lsErr' = "bind"
             /\ UNCHANGED <<listener, calls>>
    /\ UNCHANGED <<mainPc, inShutdown, registered, sig, elapsed, quietAtShutdown,
                   fixture, conns, log>>

\* SrvTrack without the test of inShutdown
SrvTrack_noCheck ==
    /\ Alive /\ gPc = "track"
    /\ gPc' = "serving"
    /\ UNCHANGED <<mainPc, listener, inShutdown, lsErr, registered, sig, calls, elapsed,
                   quietAtShutdown, fixture, conns, log>>

\* line 100, srv.Serve registers the listener with srv: when srv is already
\* shutting down it closes the listener and returns ErrServerClosed
SrvTrack ==
    /\ Alive /\ gPc = "track"
    /\ IF inShutdown
       THEN /\ gPc' = "ret"
            /\ lsErr' = "closed"
            /\ listener' = "closed"
            /\ calls' = [calls EXCEPT !.lnCloses = @ + 1]
       ELSE /\ gPc' = "serving"
            /\ UNCHANGED <<lsErr, listener, calls>>
    /\ UNCHANGED <<mainPc, inShutdown, registered, sig, elapsed, quietAtShutdown,
                   fixture, conns, log>>

\* the next unused connection id
NextConn == CHOOSE c \in ConnIds : conns[c].st = "none" /\ \A d \in ConnIds : d < c => conns[d].st # "none"

\* line 100, the accept loop of srv.Serve: a connection is accepted and its
\* task started
SrvAccept ==
    /\ Alive /\ gPc = "serving" /\ listener = "open"
    /\ \E c \in ConnIds : conns[c].st = "none"
    /\ conns' = [conns EXCEPT ![NextConn].st = "new"]
    /\ UNCHANGED <<mainPc, gPc, listener, inShutdown, lsErr, registered, sig, calls,
                   elapsed, quietAtShutdown, fixture, log>>

\* line 100, Accept fails on the closed listener: srv.Serve returns
\* ErrServerClosed
SrvAcceptClosed ==
    /\ Alive /\ gPc = "serving" /\ listener = "closed"
    /\ gPc' = "ret"
    /\ lsErr' = "closed"
    /\ UNCHANGED <<mainPc, listener, inShutdown, registered, sig, calls, elapsed,
                   quietAtShutdown, fixture, conns, log>>

\* SrvLogError with log.Fatal in place of log.Println
SrvLogError_fatal ==
    /\ Alive /\ gPc = "ret"
    /\ gPc' = "done"
    /\ log' = IF lsErr # "nil" THEN [log EXCEPT !.errListen = @ + 1] ELSE log
    /\ mainPc' = IF lsErr # "nil" THEN "exited" ELSE mainPc
    /\ UNCHANGED <<listener, inShutdown, lsErr, registered, sig, calls,
                   elapsed, quietAtShutdown, fixture, conns>>

\* lines 101-103
SrvLogError ==
    /\ Alive /\ gPc = "ret"
    /\ gPc' = "done"
    /\ log' = IF lsErr # "nil" THEN [log EXCEPT !.errListen = @ + 1] ELSE log
    /\ UNCHANGED <<mainPc, listener, inShutdown, lsErr, registered, sig, calls,
                   elapsed, quietAtShutdown, fixture, conns>>

\* ----------------------------------------------------------- connections
\* The task of a connection reads the request line.
ConnRead(c) ==
    /\ Alive /\ conns[c].st = "new"
    /\ \E p \in Paths : conns' = [conns EXCEPT ![c].st = "routed", ![c].path = p]
    /\ UNCHANGED <<mainPc, gPc, listener, inShutdown, lsErr, registered, sig, calls,
                   elapsed, quietAtShutdown, fixture, log>>

\* The client sends nothing: the connection is closed without a request
\* (ReadTimeout, line 94).
ConnTimeout(c) ==
    /\ Alive /\ conns[c].st = "new"
    /\ conns' = [conns EXCEPT ![c].st = "closed"]
    /\ UNCHANGED <<mainPc, gPc, listener, inShutdown, lsErr, registered, sig, calls,
                   elapsed, quietAtShutdown, fixture, log>>

\* The router of lines 83-88 on a path that matches no route: mux serves
\* http.NotFoundHandler, without the middlewares of router.Use.
ConnNotFound(c) ==
    /\ Alive /\ conns[c].st = "routed"
    /\ Match(conns[c].path) = "none"
    /\ conns' = [conns EXCEPT ![c].st = "done", ![c].resp = NotFoundHandler]
    /\ UNCHANGED <<mainPc, gPc, listener, inShutdown, lsErr, registered, sig, calls,
                   elapsed, quietAtShutdown, fixture, log>>


\* LoggingMiddleware that answers by itself and does not call next
LoggingMiddleware_shortCircuit(c) ==
    /\ Alive /\ conns[c].st = "routed"
    /\ Match(conns[c].path) # "none"
    /\ conns' = [conns EXCEPT ![c].st = "done", ![c].logs = @ + 1,
                              ![c].resp = [status |-> 403, body |-> NoBody,
                                           panic |-> FALSE, errlog |-> 0]]
    /\ UNCHANGED <<mainPc, gPc, listener, inShutdown, lsErr, registered, sig, calls,
                   elapsed, quietAtShutdown, fixture, log>>

\* LoggingMiddleware that logs once more after next.ServeHTTP is set up
LoggingMiddleware_twice(c) ==
    /\ Alive /\ conns[c].st = "routed"
    /\ Match(conns[c].path) # "none"
    /\ conns' = [conns EXCEPT ![c].st = "handler", ![c].logs = @ + 2]
    /\ UNCHANGED <<mainPc, gPc, listener, inShutdown, lsErr, registered, sig, calls,
                   elapsed, quietAtShutdown, fixture, log>>

\* LoggingMiddleware, line 119, on a request that matched a route: one line
\* with r.Method and r.RequestURI; line 121 then calls the handler.
LoggingMiddleware(c) ==
    /\ Alive /\ conns[c].st = "routed"
    /\ Match(conns[c].path) # "none"
    /\ conns' = [conns EXCEPT ![c].st = "handler", ![c].logs = @ + 1]
    /\ UNCHANGED <<mainPc, gPc, listener, inShutdown, lsErr, registered, sig, calls,
                   elapsed, quietAtShutdown, fixture, log>>

\* ConnHandler without the recover of the connection's task: the panic ends
\* the process
ConnHandler_noRecover(c) ==
    /\ Alive /\ conns[c].st = "handler"
    /\ LET out == RunHandler(conns[c].path, fixture)
       IN  /\ conns' = [conns EXCEPT ![c].st = IF out.panic THEN "aborted" ELSE "done",
                                     ![c].resp = out]
           /\ log' = [log EXCEPT !.unmarshal = @ + out.errlog,
                                 !.panic = @ + (IF out.panic THEN 1 ELSE 0)]
           /\ mainPc' = IF out.panic THEN "exited" ELSE mainPc
           /\ listener' = IF out.panic /\ listener = "open" THEN "closed" ELSE listener
    /\ UNCHANGED <<gPc, inShutdown, lsErr, registered, sig, calls,
                   elapsed, quietAtShutdown, fixture>>

\* The handler of the route runs and the response is finished.  A panic of
\* the handler is recovered by the connection's task (net/http), which logs
\* it and closes the connection without a response.
ConnHandler(c) ==
    /\ Alive /\ conns[c].st = "handler"
    /\ LET out == RunHandler(conns[c].path, fixture)
       IN  /\ conns' = [conns EXCEPT ![c].st = IF out.panic THEN "aborted" ELSE "done",
                                     ![c].resp = out]
           /\ log' = [log EXCEPT !.unmarshal = @ + out.errlog,
                                 !.panic = @ + (IF out.panic THEN 1 ELSE 0)]
    /\ UNCHANGED <<mainPc, gPc, listener, inShutdown, lsErr, registered, sig, calls,
                   elapsed, quietAtShutdown, fixture>>

\* ------------------------------------------------------------------ spec
Next ==
    \/ MainStart
    \/ MainNotify
    \/ MainReceive
    \/ SignalDelivered
    \/ SignalDropped
    \/ MainGotSignal
    \/ ShutdownBegin
    \/ ShutdownReturn
    \/ Tick
    \/ MainReturn
    \/ SrvLogListening
    \/ SrvListenEntry
    \/ SrvBind
    \/ SrvTrack
    \/ SrvAccept
    \/ SrvAcceptClosed
    \/ SrvLogError
    \/ \E c \in ConnIds : ConnRead(c)
    \/ \E c \in ConnIds : ConnTimeout(c)
    \/ \E c \in ConnIds : ConnNotFound(c)
    \/ \E c \in ConnIds : LoggingMiddleware(c)
    \/ \E c \in ConnIds : ConnHandler(c)

Spec == Init /\ [][Next]_vars

\* The shutdown protocol reads the fixture only through the outcome of
\* GeocodeHandler (a panic or a response): one fixture of each kind.
LiveFixtures ==
    { [kind |-> "json", results |-> << >>],
      [kind |-> "json", results |-> <<ResultExact>>] }

LiveInit == Init /\ fixture \in LiveFixtures

\* The Go scheduler runs every runnable goroutine and timers fire: main's
\* steps and the clock are taken when they stay enabled.  Nothing makes a
\* client send its request or a handler finish.
Fairness ==
    /\ WF_vars(MainReceive)
    /\ WF_vars(MainGotSignal)
    /\ WF_vars(ShutdownBegin)
    /\ WF_vars(ShutdownReturn)
    /\ WF_vars(Tick)
    /\ WF_vars(MainReturn)

LiveSpec == LiveInit /\ [][Next]_vars /\ Fairness

TypeOK ==
    /\ mainPc \in {"start", "notify", "recv", "wait", "gotsig", "shutdown", "polling", "returned", "exited"}
    /\ gPc \in {"none", "log", "listen", "bind", "track", "serving", "ret", "done"}
    /\ listener \in {"unbound", "open", "closed"}
    /\ inShutdown \in BOOLEAN
    /\ lsErr \in {"nil", "bind", "closed"}
    /\ fixture \in Fixtures

\* ------------------------------------------------------------- lifecycle
\* Draining: the signal has been observed and main has not returned.
Draining == mainPc \in {"gotsig", "shutdown", "polling", "returned"}
\* Stopped: main has returned.
Stopped == mainPc = "exited"
\* Running: the server accepts connections and main has seen no signal.
Running == ~Draining /\ ~Stopped /\ gPc = "serving" /\ listener = "open"
\* the request of c has been handed to a handler (a route's or NotFound)
Dispatched(c) == conns[c].st \in {"handler", "done", "aborted"}

\* ---------------------------------------------------------------- claims
\* C1: srv.Shutdown is called only after a signal has been received, and
\* main returns only after that one call has returned; no state has main
\* returned without a received signal and a returned shutdown call.
C1_ShutdownBetweenSignalAndExit ==
    /\ (inShutdown \/ calls.shutdown > 0) => sig.received > 0
    /\ calls.shutdownRet <= calls.shutdown
    /\ Stopped => (sig.received > 0 /\ calls.shutdown = 1 /\ calls.shutdownRet = 1)

\* C1 witness: main has returned while a request was served before.
C1_Witness ==
    /\ Stopped
    /\ \E c \in ConnIds : conns[c].st = "done"
    /\ gPc = "done"

\* C2: once Draining is entered, Stopped is eventually reached, whatever
\* the open requests do (they may never finish).
C2_DrainingLeadsToStopped == Draining ~> Stopped

\* C2 witness: the deadline has passed while a request is still in its
\* handler and srv.Shutdown has not yet returned.
C2_Witness ==
    /\ mainPc = "polling"
    /\ Expired
    /\ \E c \in ConnIds : conns[c].st = "handler"

\* C3 as stated: once srv.Shutdown has begun no connection is accepted and
\* no request is handed to a handler, and nothing is served after Stopped.
C3_Original ==
    [][ /\ inShutdown => \A c \in ConnIds :
                            /\ conns[c].st = "none" => conns'[c].st = "none"
                            /\ Dispatched(c)' => Dispatched(c)
        /\ Stopped => conns' = conns ]_vars

\* C3 amended: once srv.Shutdown has begun no connection is accepted, also
\* when the listener is bound only afterwards, and nothing is served after
\* Stopped.  (A connection accepted before may still get its request
\* handed to a handler.)
C3_NoAcceptAfterShutdown ==
    [][ /\ inShutdown => \A c \in ConnIds : conns[c].st = "none" => conns'[c].st = "none"
        /\ Stopped => conns' = conns ]_vars

\* C3 witness: the signal was observed before the goroutine bound its
\* listener; the listener is now bound while srv is shutting down, and a
\* client could still connect.
C3_Witness ==
    /\ inShutdown
    /\ listener = "open"
    /\ gPc = "track"
    /\ \E c \in ConnIds : conns[c].st = "none"

\* C4: a request in flight when the signal arrives is not cut off before
\* the deadline (main returns before the deadline only when no connection
\* is open); one that is still open at the deadline does not hold main
\* back, and after main has returned it never gets a response.
C4_SlowRequest ==
    /\ [](mainPc \in {"returned", "exited"} /\ ~Expired => Quiescent)
    /\ (mainPc = "polling" /\ Expired /\ ~Quiescent) ~> Stopped
    /\ [][Stopped => conns' = conns]_vars

\* C4 witness: with requests in flight at the shutdown call, one has got
\* its response and the other was cut off in its handler when main returned
\* at the deadline.
C4_Witness ==
    /\ Stopped
    /\ ~quietAtShutdown
    /\ Expired
    /\ \E c, d \in ConnIds :
          /\ conns[c].st = "done" /\ conns[c].resp.status = StatusOK
          /\ conns[d].st = "handler"

Finished(c) == conns[c].st \in {"done", "aborted"}

\* C6 as stated: every request, matched or not, has exactly one log line
\* from the time its handler is about to run.
C6_Original ==
    \A c \in ConnIds :
        /\ conns[c].logs <= 1
        /\ Dispatched(c) => conns[c].logs = 1

\* C6 amended: every request whose path matches a registered route has
\* exactly one log line, written before its handler runs; a request whose
\* path matches no route has none (mux serves NotFound without the
\* middleware); no request has more than one.
C6_OneLogLinePerMatchedRequest ==
    \A c \in ConnIds :
        /\ ~Dispatched(c) => conns[c].logs = 0
        /\ Dispatched(c) => conns[c].logs = (IF Match(conns[c].path) = "none" THEN 0 ELSE 1)

\* C6 witness: a matched request is logged and its handler has not run
\* yet, while an unmatched request has been answered.
C6_Witness ==
    \E c, d \in ConnIds :
        /\ conns[c].st = "handler" /\ conns[c].logs = 1
        /\ conns[d].st = "done" /\ Match(conns[d].path) = "none"
        /\ conns[d].resp.status = StatusNotFound

\* C7: the step in which a handler panics (GeocodeHandler on a payload
\* without results) changes neither main, the goroutine, the listener, the
\* shutdown flag nor any other connection: the server keeps Running and
\* goes on serving.
C7_PanicDoesNotCrash ==
    [][ \A c \in ConnIds :
          (conns[c].st = "handler" /\ conns'[c].st = "aborted") =>
             /\ mainPc' = mainPc /\ gPc' = gPc
             /\ listener' = listener /\ inShutdown' = inShutdown
             /\ Running => Running'
             /\ \A d \in ConnIds \ {c} : conns'[d] = conns[d] ]_vars

\* C7 witness: with an empty results array, the first request to /geocode
\* has panicked, the server is still Running, and the connection accepted
\* after it has been served.
C7_Witness ==
    /\ fixture = [kind |-> "json", results |-> << >>]
    /\ conns[1].st = "aborted" /\ Match(conns[1].path) = "geocode"
    /\ conns[2].st = "done" /\ conns[2].resp.status = StatusOK
    /\ Running

\* C8: after net.Listen has failed, the listener is never bound and no
\* connection is ever accepted, the goroutine ends after logging the error
\* (no retry), main stays before or in the receive of line 109 until a
\* signal is received, and it returns only after that signal and the
\* shutdown call.
C8_BindFailure ==
    lsErr = "bind" =>
        /\ gPc \in {"ret", "done"}
        /\ gPc = "done" => log.errListen = 1
        /\ listener = "unbound" /\ calls.lnOpens = 0
        /\ \A c \in ConnIds : conns[c].st = "none"
        /\ sig.received = 0 => mainPc \in {"notify", "recv", "wait"}
        /\ Stopped => (sig.received = 1 /\ calls.shutdownRet = 1)

\* C8 witness: the bind failed and was logged while main was waiting, and
\* main has since returned after a signal.
C8_Witness ==
    /\ lsErr = "bind"
    /\ gPc = "done"
    /\ log.errListen = 1
    /\ Stopped

\* C9: however many interrupts are sent, srv.Shutdown is called at most
\* once and exactly once by the time main returns; the listener is bound
\* at most once and closed at most once, and is never bound again.
C9_ShutdownOnce ==
    /\ calls.shutdown <= 1
    /\ calls.lnOpens <= 1
    /\ calls.lnCloses <= calls.lnOpens
    /\ listener = "open" => (calls.lnOpens = 1 /\ calls.lnCloses = 0)
    /\ (listener = "closed" /\ ~Stopped) => calls.lnCloses = 1
    /\ Stopped => (calls.shutdown = 1 /\ listener # "open")

\* C9 witness: a second interrupt arrived while Draining; the server was
\* shut down once and main has returned.
C9_Witness ==
    /\ Stopped
    /\ sig.received = 1 /\ sig.lost >= 1
    /\ calls.shutdown = 1 /\ calls.lnOpens = 1 /\ calls.lnCloses = 1

\* the keys of a result that type result declares, and their zero values
DeclaredKeys == {"formatted_address", "location_type", "lat", "lng"}
ZeroOf(k) == IF k \in {"lat", "lng"} THEN 0 ELSE ""

\* C10 as stated, for the fixtures that have a results[0]: every answered
\* /geocode request has status 200 and a body equal to results[0] of the
\* fixture.
C10_Original ==
    \A c \in ConnIds :
        (Finished(c) /\ Match(conns[c].path) = "geocode"
           /\ fixture.kind = "json" /\ Len(fixture.results) > 0) =>
            /\ conns[c].resp.status = StatusOK
            /\ conns[c].resp.body = JsonBody(fixture.results[1])

\* C10 amended: the outcome of a /geocode request does not depend on the
\* address.  With a fixture that has a first result, the status is 200 and
\* the body holds exactly the declared keys of results[0], each with the
\* fixture's value or, when the fixture lacks it, the zero value; keys the
\* type does not declare are dropped.  With a fixture without results, no
\* request gets a body.
C10_AddressIndependent ==
    \A c, d \in ConnIds :
        (Finished(c) /\ Finished(d) /\ Match(conns[c].path) = "geocode"
           /\ Match(conns[d].path) = "geocode") =>
            /\ conns[c].resp = conns[d].resp
            /\ conns[c].resp.status = StatusOK
            /\ IF fixture.kind = "json" /\ Len(fixture.results) > 0
               THEN /\ conns[c].st = "done"
                    /\ conns[c].resp.body.kind = "json"
                    /\ DOMAIN conns[c].resp.body.obj = DeclaredKeys
                    /\ \A k \in DeclaredKeys :
                          conns[c].resp.body.obj[k] =
                             (IF k \in DOMAIN fixture.results[1]
                              THEN fixture.results[1][k] ELSE ZeroOf(k))
               ELSE conns[c].st = "aborted" /\ conns[c].resp.body = NoBody

\* C10 witness: two /geocode requests with different addresses have been
\* answered from a fixture whose first result carries a key the type does
\* not declare.
C10_Witness ==
    /\ fixture = [kind |-> "json", results |-> <<ResultExtra>>]
    /\ Finished(1) /\ Finished(2)
    /\ conns[1].path = <<"geocode", "a">>
    /\ conns[2].path = <<"geocode", "b">>

\* the three registered routes: /, /geocode/{address}, /geoloc/{lat},{lng}
Registered(p) ==
    \/ p = << >>
    \/ Len(p) = 2 /\ p[1] = "geocode"
    \/ Len(p) = 3 /\ p[1] = "geoloc"

Starting == ~Draining /\ ~Stopped /\ ~Running
\* the lifecycle state of section 4.4
Lifecycle ==
    IF Stopped THEN "Stopped"
    ELSE IF Draining THEN "Draining"
    ELSE IF Running THEN "Running"
    ELSE "Starting"

\* the transition table of section 4.4
TableTransitions ==
    { <<"Starting", "Running">>, <<"Running", "Draining">>, <<"Draining", "Stopped">> }

C13_MiddlewareForwards ==
    [][ \A c \in ConnIds :
          /\ (conns[c].st = "routed" /\ Registered(conns[c].path) /\ conns'[c] # conns[c]) =>
                conns'[c] = [conns[c] EXCEPT !.st = "handler", !.logs = @ + 1]
          /\ (conns'[c].st = "handler" /\ conns[c].st # "handler") =>
                (conns[c].st = "routed" /\ conns'[c].resp = NoResp)
          /\ (conns[c].st = "handler" /\ conns'[c] # conns[c]) =>
                (conns'[c].st \in {"done", "aborted"} /\ conns'[c].path = conns[c].path
                   /\ conns'[c].logs = conns[c].logs) ]_vars

\* C13 witness: the middleware has logged a /geoloc request and handed it
\* on; the handler has not run and nothing is written.
C13_Witness ==
    \E c \in ConnIds :
        /\ conns[c].st = "handler"
        /\ conns[c].path = <<"geoloc", "1", "2">>
        /\ conns[c].logs = 1
        /\ conns[c].resp = NoResp

\* the fixture decodes to no results: unreadable, malformed, or an empty
\* results array
NoResults == fixture.kind # "json" \/ Len(fixture.results) = 0

\* C14: with a payload that decodes to no results, every /geocode request
\* that has been handled ended in the panic of resp.Results[0]: status 200
\* had been set by WriteHeader, no body was written and no other status;
\* an unreadable or malformed fixture has only added the Unmarshal log
\* line.  No other request panics.
C14_EmptyResultsPanic ==
    \A c \in ConnIds :
        /\ (Finished(c) /\ Len(conns[c].path) = 2 /\ conns[c].path[1] = "geocode" /\ NoResults) =>
              /\ conns[c].st = "aborted"
              /\ conns[c].resp.panic
              /\ conns[c].resp.status = StatusOK
              /\ conns[c].resp.body = NoBody
              /\ conns[c].resp.errlog = (IF fixture.kind = "json" THEN 0 ELSE 1)
              /\ log.panic >= 1
              /\ log.unmarshal >= conns[c].resp.errlog
        /\ conns[c].st = "aborted" =>
              (NoResults /\ Len(conns[c].path) = 2 /\ conns[c].path[1] = "geocode")

\* C14 witness: with a malformed fixture a /geocode request has logged the
\* Unmarshal error and then panicked.
C14_Witness ==
    /\ fixture = [kind |-> "malformed"]
    /\ log.unmarshal = 1
    /\ \E c \in ConnIds :
          /\ conns[c].st = "aborted"
          /\ conns[c].path = <<"geocode", "a">>
          /\ conns[c].resp.status = StatusOK

\* a step of the task of connection c (it reads, routes or handles)
TaskStep(c) == conns[c].st \in {"new", "routed", "handler"} /\ conns'[c] # conns[c]
\* a step of the server goroutine (lines 99-103, the accept loop included)
GoroutineStep ==
    /\ gPc # "none"
    /\ \/ gPc' # gPc
       \/ \E c \in ConnIds : conns[c].st = "none" /\ conns'[c].st = "new"

\* C15 as stated: no step of the server goroutine or of a request task
\* changes the lifecycle state or the listening socket, and a task changes
\* no connection but its own.  (The lines of the process log are output,
\* not state.)
C15_Original ==
    [][ /\ (GoroutineStep \/ \E c \in ConnIds : TaskStep(c)) =>
              (Lifecycle' = Lifecycle /\ listener' = listener)
        /\ \A c \in ConnIds : TaskStep(c) =>
              (fixture' = fixture /\ \A d \in ConnIds \ {c} : conns'[d] = conns[d]) ]_vars

\* C15 amended: Draining and Stopped are entered by steps of main only.
\* The server goroutine changes neither main nor the shutdown flag; it
\* takes Starting to Running, binds the listening socket, and closes it
\* only when it bound it after the shutdown began.  A request task changes
\* neither the lifecycle state nor the socket, and no connection but its
\* own.
C15_Writers ==
    [][ /\ \A c \in ConnIds : TaskStep(c) =>
              /\ Lifecycle' = Lifecycle /\ listener' = listener
              /\ mainPc' = mainPc /\ gPc' = gPc /\ inShutdown' = inShutdown
              /\ fixture' = fixture
              /\ \A d \in ConnIds \ {c} : conns'[d] = conns[d]
        /\ GoroutineStep =>
              /\ mainPc' = mainPc /\ inShutdown' = inShutdown
              /\ Lifecycle' # Lifecycle => (Lifecycle = "Starting" /\ Lifecycle' = "Running")
              /\ listener' # listener =>
                    \/ gPc = "bind" /\ listener = "unbound" /\ listener' = "open"
                    \/ gPc = "track" /\ inShutdown /\ listener' = "closed"
        /\ (Lifecycle' # Lifecycle /\ Lifecycle' \in {"Draining", "Stopped"}) =>
              (mainPc' # mainPc /\ gPc' = gPc /\ conns' = conns) ]_vars

\* C15 witness: the goroutine has taken the server to Running and a task
\* has served a request, while main is blocked in its receive.
C15_Witness ==
    /\ Lifecycle = "Running"
    /\ mainPc = "wait"
    /\ \E c \in ConnIds : conns[c].st = "done" /\ conns[c].resp = HomeHandler

\* C16 as stated: no interrupt delivered after the registration and before
\* Draining is dropped: each is received by main (and so leads to
\* Draining).
C16_NoSignalLost ==
    [][ (sig.sent' > sig.sent /\ Lifecycle \notin {"Draining", "Stopped"}) =>
            sig.lost' = sig.lost ]_vars

\* C17 as stated, for the runs it names: in a run in which the listener
\* was bound and has accepted a connection, the 'Error on ListenAndServe'
\* line is never logged, also not after the shutdown by a signal.
C17_ErrorOnlyWhenNotBound ==
    (calls.lnOpens = 1 /\ \E c \in ConnIds : conns[c].st # "none") => log.errListen = 0

====
